---- MODULE Spec2Model ----
(***************************************************************************)
(* Model of orbit_jni.cpp: the JNI entry point                             *)
(* Java_com_orbitYu_orbit_OrbitPropagator_propagateFromTle.                *)
(*                                                                         *)
(* One call of the function is followed from its entry to its return.     *)
(* The arguments (line1, line2, durationHours, stepMinutes) are drawn in   *)
(* Init.  Doubles are integer-valued; `int` keeps its 32 bits.  The SGP4   *)
(* library (twoline2rv, sgp4, teme2ecef, ijk2ll) is outside the file: a     *)
(* TLE is represented by the behaviour of the orbit it encodes, and the    *)
(* numeric results are kept symbolically as <<quantity, tsince>>.          *)
(***************************************************************************)
EXTENDS Integers, Sequences, FiniteSets, TLC

VARIABLES
    line1, line2,        \* jstring arguments
    durationHours,       \* jdouble argument
    stepMinutes,         \* jdouble argument
    l1, l2,              \* const char* obtained from GetStringUTFChars
    satrec,              \* elsetrec filled by twoline2rv
    steps, totalPoints,  \* int locals
    i,                   \* loop counter
    trajectory,          \* std::vector<double>
    pending,             \* exception pending in the JNIEnv
    returned,            \* value handed back to Java
    released,            \* ReleaseStringUTFChars calls made, in order
    sgp4Calls,           \* loop indices for which sgp4 was invoked, in order
    pc                   \* position in the function

vars == <<line1, line2, durationHours, stepMinutes, l1, l2, satrec, steps,
          totalPoints, i, trajectory, pending, returned, released, sgp4Calls, pc>>

-----------------------------------------------------------------------------
(* Bounds of the explored inputs. *)

MaxHours == 2
MaxStep == 4
MaxFailT == 3
ScenarioHours == 90
ScenarioStep == 10
HugeHours == 1000000000

(* Program constants. *)

INT_MAX == 2147483647
MinutesPerHour == 60
ValuesPerPoint == 9

INT_MIN == -INT_MAX - 1

\* A null const char*, and one not yet obtained.
NULL == [chars |-> "nullptr"]
NoChars == [chars |-> "unset"]

\* No exception pending.
NoException == [class |-> "none", message |-> <<>>]

\* The jdoubleArray handed back: nothing yet, nullptr, or an array.
NotReturned == [kind |-> "unset", data |-> <<>>]
NullArray == [kind |-> "nullptr", data |-> <<>>]
DoubleArray(data) == [kind |-> "array", data |-> data]

\* A local not yet declared.
Unset == "unset"

-----------------------------------------------------------------------------
(* The SGP4 library, at its boundary. *)

\* Error codes sgp4 leaves in satrec.error (1, 4, 6: mean eccentricity out of
\* range, semi-latus rectum negative, satellite decayed).
FailCodes == {1, 4, 6}

FailTimes == 0 .. MaxFailT

\* The orbits a TLE pair can encode: whether initialisation reports an error,
\* at which elapsed times propagation fails, and with which code.
Orbits ==
    [error : {0}, bad : {{}}, code : {0}]
    \cup [error : {0}, bad : (SUBSET FailTimes) \ {{}}, code : FailCodes]
    \cup [error : FailCodes, bad : {{}}, code : {0}]

\* twoline2rv: fills satrec from the two lines; satrec.error # 0 on failure.
twoline2rv(longstr1, longstr2) ==
    [error |-> longstr1.orbit.error,
     bad   |-> longstr1.orbit.bad,
     code  |-> longstr1.orbit.code]

\* sgp4: the error it reports for satrec at tsince (0: none); it returns
\* false exactly when the error is not 0.
sgp4Error(rec, tsince) ==
    IF rec.error # 0 THEN rec.error
    ELSE IF tsince \in rec.bad THEN rec.code
    ELSE 0

sgp4(rec, tsince) == sgp4Error(rec, tsince) = 0

\* Position and velocity sgp4 writes for tsince (TEME, km and km/s).
sgp4R(tsince) == << <<"x", tsince>>, <<"y", tsince>>, <<"z", tsince>> >>
sgp4V(tsince) == << <<"vx", tsince>>, <<"vy", tsince>>, <<"vz", tsince>> >>

\* teme2ecef followed by ijk2ll: latitude and longitude in radians, altitude
\* in km, of the position sgp4 gave for tsince, at the Julian date
\* jdsatepoch + tsince / 1440.
ijk2ll(tsince) ==
    << <<"lat_rad", tsince>>, <<"lon_rad", tsince>>, <<"alt", tsince>> >>

\* An angle in radians times rad2deg.
Rad2Deg(angle) ==
    IF angle[1] = "lat_rad" THEN <<"lat_deg", angle[2]>>
    ELSE IF angle[1] = "lon_rad" THEN <<"lon_deg", angle[2]>>
    ELSE angle

-----------------------------------------------------------------------------
(* JNI, at its boundary. *)

NullRef == [ref |-> "null"]

\* A java.lang.String argument that is not null: which line, and the orbit
\* its text encodes.
JString(ref, orbit) == [ref |-> ref, orbit |-> orbit]

\* GetStringUTFChars: the characters of the string, or NULL (a null reference,
\* or no memory for the copy).
Chars(jstr) == [chars |-> jstr.ref, orbit |-> jstr.orbit]
GetStringUTFChars(jstr) ==
    IF jstr = NullRef THEN {NULL} ELSE {Chars(jstr), NULL}

\* ReleaseStringUTFChars(jstr, chars): recorded as a call.
ReleaseCall(jstr, chars) == [string |-> jstr.ref, chars |-> chars]

-----------------------------------------------------------------------------
(* 32-bit int arithmetic. *)

\* x + 1 in an int.
IncInt(x) == IF x = INT_MAX THEN INT_MIN ELSE x + 1

\* x * 9 in an int, computed on 16-bit halves.
Mul9Int(x) ==
    LET lo    == x % 65536
        hi    == (x - lo) \div 65536
        lo9   == ValuesPerPoint * lo
        hi9   == (ValuesPerPoint * hi + (lo9 \div 65536)) % 65536
        hiS   == IF hi9 >= 32768 THEN hi9 - 65536 ELSE hi9
    IN  hiS * 65536 + (lo9 % 65536)

-----------------------------------------------------------------------------
(* Step 3: the number of time steps. *)

\* std::floor(totalMinutes / stepMinutes) with totalMinutes = hours * 60.0,
\* as a double: a value an int can hold, a value above INT_MAX (or +inf),
\* a value below INT_MIN (or -inf), or NaN (0.0 / 0.0).
FloorQuotient(hours, step) ==
    IF step = 0
    THEN (IF hours > 0 THEN [kind |-> "above"]
          ELSE IF hours < 0 THEN [kind |-> "below"]
          ELSE [kind |-> "nan"])
    ELSE
      LET a   == IF hours < 0 THEN -hours ELSE hours
          b   == IF step < 0 THEN -step ELSE step
          neg == (hours < 0) # (step < 0)
          k   == a \div b
          r   == a % b
          w   == (MinutesPerHour * r) \div b
          c   == IF neg /\ (MinutesPerHour * r) % b # 0 THEN 1 ELSE 0
          fit == k <= (INT_MAX - (w + c)) \div MinutesPerHour
          mag == MinutesPerHour * k + w + c
      IN  IF fit
          THEN [kind |-> "int", val |-> IF neg THEN -mag ELSE mag]
          ELSE IF neg /\ k <= INT_MAX \div MinutesPerHour
                      /\ w + c - 1 = INT_MAX - MinutesPerHour * k
          THEN [kind |-> "int", val |-> INT_MIN]
          ELSE IF neg THEN [kind |-> "below"] ELSE [kind |-> "above"]

\* static_cast<int>(q): the value when an int can hold it; otherwise the
\* conversion is undefined, and yields INT_MIN (cvttsd2si on x86) or the
\* saturated value, 0 for NaN (fcvtzs on AArch64).
CastToInt(q) ==
    IF q.kind = "int" THEN {q.val}
    ELSE IF q.kind = "above" THEN {INT_MIN, INT_MAX}
    ELSE IF q.kind = "below" THEN {INT_MIN}
    ELSE {INT_MIN, 0}

\* Variant of ClampSteps: the clamp left out.
ClampStepsMissing(n) == n

\* if (steps < 0) steps = 0;
ClampSteps(n) == IF n < 0 THEN 0 ELSE n

\* int totalPoints = steps + 1;
TotalPoints(n) == IncInt(n)

\* trajectory.reserve(totalPoints * 9): the int product converted to size_t.
\* A negative product is a size above max_size(): reserve throws
\* std::length_error, which nothing catches.
ReserveThrows(points) == Mul9Int(points) < 0

-----------------------------------------------------------------------------
(* Exceptions thrown with env->ThrowNew. *)

InvalidInputClass == "java/lang/IllegalArgumentException"
PropagationFailureClass == "java/lang/RuntimeException"

\* Variant of AllocationFailureClass: the class of the propagation failure.
AllocationFailureAsRuntime == "java/lang/RuntimeException"

AllocationFailureClass == "java/lang/OutOfMemoryError"

NullLinesException ==
    [class |-> InvalidInputClass, message |-> <<"TLE lines cannot be null">>]

InvalidTleException ==
    [class |-> InvalidInputClass, message |-> <<"Invalid TLE format">>]

\* Variant of FailedStepMessage: the step counted from one.
FailedStepMessageOneBased(idx) == <<"SGP4 propagation failed at step ", idx + 1>>

\* "SGP4 propagation failed at step " + std::to_string(i)
FailedStepMessage(idx) == <<"SGP4 propagation failed at step ", idx>>

\* The exception thrown when sgp4 returns false at index idx, satrec.error
\* being code.
PropagationException(idx, code) ==
    [class |-> PropagationFailureClass, message |-> FailedStepMessage(idx)]

AllocationException ==
    [class |-> AllocationFailureClass,
     message |-> <<"Failed to allocate result array">>]

-----------------------------------------------------------------------------
(* The function, step by step. *)

\* if (!l1 || !l2)
LinesMissing(c1, c2) == c1 = NULL \/ c2 = NULL

\* Variant of ParseRejected: the check left out.
ParseNeverRejected(rec) == FALSE

\* if (satrec.error != 0)
ParseRejected(rec) == rec.error # 0

\* double tsince = i * stepMinutes;
Tsince(idx, step) == idx * step

\* Variant of SamplePoint: longitude pushed before latitude.
SamplePointLonFirst(tsince) ==
    LET latlongh == ijk2ll(tsince)
    IN  sgp4R(tsince) \o sgp4V(tsince)
        \o <<Rad2Deg(latlongh[2]), Rad2Deg(latlongh[1]), latlongh[3]>>

\* The nine values pushed for one point: r, v, then latitude and longitude
\* in degrees and altitude in km.
SamplePoint(tsince) ==
    LET latlongh == ijk2ll(tsince)
    IN  sgp4R(tsince) \o sgp4V(tsince)
        \o <<Rad2Deg(latlongh[1]), Rad2Deg(latlongh[2]), latlongh[3]>>

\* The two ReleaseStringUTFChars calls every exit makes.
ReleaseBoth == <<ReleaseCall(line1, l1), ReleaseCall(line2, l2)>>

\* The (durationHours, stepMinutes) pairs a call is made with.
Inputs ==
    ((-1 .. MaxHours) \X (-MaxStep .. MaxStep))
    \cup {<<ScenarioHours, ScenarioStep>>}
    \cup ({HugeHours} \X (-MaxStep .. MaxStep))

Init ==
    /\ \E o \in Orbits :
         /\ line1 \in {NullRef, JString("line1", o)}
         /\ line2 \in {NullRef, JString("line2", o)}
    /\ \E in \in Inputs :
         /\ durationHours = in[1]
         /\ stepMinutes = in[2]
    /\ l1 = NoChars
    /\ l2 = NoChars
    /\ satrec = Unset
    /\ steps = Unset
    /\ totalPoints = Unset
    /\ i = Unset
    /\ trajectory = <<>>
    /\ pending = NoException
    /\ returned = NotReturned
    /\ released = <<>>
    /\ sgp4Calls = <<>>
    /\ pc = "get_strings"

\* 1. Get TLE strings from Java.
GetStrings ==
    /\ pc = "get_strings"
    /\ \E c1 \in GetStringUTFChars(line1), c2 \in GetStringUTFChars(line2) :
         /\ l1' = c1
         /\ l2' = c2
         /\ IF LinesMissing(c1, c2)
            THEN /\ released' = <<ReleaseCall(line1, c1), ReleaseCall(line2, c2)>>
                 /\ pending' = NullLinesException
                 /\ returned' = NullArray
                 /\ pc' = "done"
            ELSE /\ pc' = "parse"
                 /\ UNCHANGED <<released, pending, returned>>
    /\ UNCHANGED <<line1, line2, durationHours, stepMinutes, satrec, steps,
                   totalPoints, i, trajectory, sgp4Calls>>

\* 2. Parse TLE.
ParseTle ==
    /\ pc = "parse"
    /\ satrec' = twoline2rv(l1, l2)
    /\ IF ParseRejected(satrec')
       THEN /\ released' = released \o ReleaseBoth
            /\ pending' = InvalidTleException
            /\ returned' = NullArray
            /\ pc' = "done"
       ELSE /\ pc' = "calc"
            /\ UNCHANGED <<released, pending, returned>>
    /\ UNCHANGED <<line1, line2, durationHours, stepMinutes, l1, l2, steps,
                   totalPoints, i, trajectory, sgp4Calls>>

\* 3. and 4. Calculate time steps, reserve the trajectory storage.
CalcSteps ==
    /\ pc = "calc"
    /\ \E n \in CastToInt(FloorQuotient(durationHours, stepMinutes)) :
         /\ steps' = ClampSteps(n)
         /\ totalPoints' = TotalPoints(steps')
    /\ IF ReserveThrows(totalPoints')
       THEN /\ pc' = "aborted"
            /\ i' = i
       ELSE /\ pc' = "loop"
            /\ i' = 0
    /\ UNCHANGED <<line1, line2, durationHours, stepMinutes, l1, l2, satrec,
                   trajectory, pending, returned, released, sgp4Calls>>

\* 5. One iteration of the propagation loop.
LoopIter ==
    /\ pc = "loop"
    /\ i < totalPoints
    /\ LET tsince == Tsince(i, stepMinutes)
       IN  /\ sgp4Calls' = Append(sgp4Calls, i)
           /\ IF ~sgp4(satrec, tsince)
              THEN /\ released' = released \o ReleaseBoth
                   /\ pending' = PropagationException(i, sgp4Error(satrec, tsince))
                   /\ returned' = NullArray
                   /\ pc' = "done"
                   /\ UNCHANGED <<trajectory, i>>
              ELSE /\ trajectory' = trajectory \o SamplePoint(tsince)
                   /\ i' = IncInt(i)
                   /\ UNCHANGED <<released, pending, returned, pc>>
    /\ UNCHANGED <<line1, line2, durationHours, stepMinutes, l1, l2, satrec,
                   steps, totalPoints>>

\* 6. Release TLE strings, once the loop has ended.
ReleaseStrings ==
    /\ pc = "loop"
    /\ ~(i < totalPoints)
    /\ released' = released \o ReleaseBoth
    /\ pc' = "return"
    /\ UNCHANGED <<line1, line2, durationHours, stepMinutes, l1, l2, satrec,
                   steps, totalPoints, i, trajectory, pending, returned,
                   sgp4Calls>>

\* static_cast<jsize>(trajectory.size()): the size as a 32-bit int, which is
\* the size itself up to INT_MAX; the sizes just above it convert to negative
\* values, of which INT_MIN stands for all (no trajectory here is that long).
ToJsize(size) == IF size <= INT_MAX THEN size ELSE INT_MIN

\* 7. Return the flat array to Java; NewDoubleArray can return NULL.
ReturnArray ==
    /\ pc = "return"
    /\ LET arraySize == ToJsize(Len(trajectory))
       IN  \E allocated \in BOOLEAN :
             IF ~allocated
             THEN /\ pending' = AllocationException
                  /\ returned' = NullArray
             ELSE /\ returned' = DoubleArray(SubSeq(trajectory, 1, arraySize))
                  /\ UNCHANGED pending
    /\ pc' = "done"
    /\ UNCHANGED <<line1, line2, durationHours, stepMinutes, l1, l2, satrec,
                   steps, totalPoints, i, trajectory, released, sgp4Calls>>

Next ==
    \/ GetStrings
    \/ ParseTle
    \/ CalcSteps
    \/ LoopIter
    \/ ReleaseStrings
    \/ ReturnArray

Spec == Init /\ [][Next]_vars

-----------------------------------------------------------------------------
(* Vocabulary of the properties. *)

\* The call has returned to Java.
Done == pc = "done"

\* The call has returned an array.
Succeeded == Done /\ returned.kind = "array"

\* Both strings were obtained, so that twoline2rv has run once pc is past
\* "parse".
LinesObtained == l1 # NULL /\ l2 # NULL /\ l1 # NoChars /\ l2 # NoChars

\* The step count has been computed and the storage reserved.
Counted ==
    \/ pc \in {"loop", "return"}
    \/ Done /\ LinesObtained /\ satrec.error = 0

\* n = floor(60 * hours / step) + 1, for step > 0, without forming 60 * hours.
IsFloorPlusOne(n, hours, step) ==
    /\ ((n - 1) * step + 59) \div 60 <= hours
    /\ hours <= (n * step - 1) \div 60

\* The number of samples an array of doubles holds.
SamplesIn(data) == Len(data) \div 9

\* The elapsed time of sample j of an array.
ElapsedOf(data, j) == data[9 * j + 1][2]

\* The sample indices at which propagation fails, among the first n.
FailingBelow(n) == {j \in 0 .. n - 1 : sgp4Error(satrec, j * stepMinutes) # 0}

\* The index the signaled propagation failure names.
ReportedIndex == pending.message[2]

-----------------------------------------------------------------------------
(* The claims. *)

\* C1: for every total duration D >= 0 minutes (D = durationHours * 60) and
\* every step S > 0 minutes, a successful call returns exactly floor(D/S)+1
\* samples.
C1_SampleCount ==
    (Succeeded /\ durationHours >= 0 /\ stepMinutes > 0)
        => /\ Len(returned.data) = 9 * SamplesIn(returned.data)
           /\ IsFloorPlusOne(SamplesIn(returned.data), durationHours, stepMinutes)

\* C1, where floor(D/S) is a value an int holds: the count is floor(D/S)+1;
\* D = 0 gives 1 sample and D = 5400, S = 10 gives 541.
C1_SampleCountWithinInt ==
    (Succeeded /\ durationHours >= 0 /\ stepMinutes > 0
       /\ durationHours <= INT_MAX \div 60)
        => /\ Len(returned.data) = 9 * ((60 * durationHours) \div stepMinutes + 1)
           /\ (durationHours = 0 => SamplesIn(returned.data) = 1)
           /\ (durationHours = 90 /\ stepMinutes = 10
                  => SamplesIn(returned.data) = 541)

\* C2: a call with stepMinutes <= 0 fails with the invalid-input condition:
\* no sample is computed and no sample array is returned.
C2_NonPositiveStepRejected ==
    stepMinutes <= 0
        => /\ sgp4Calls = <<>>
           /\ returned.kind # "array"
           /\ (Done => pending.class = InvalidInputClass)

\* C3: every call ends in exactly one of two outcomes: the complete sample
\* sequence (all totalPoints samples) with no error signaled, or an error
\* signaled and no array; never an array with fewer samples.
C3_AllOrNothing ==
    pc \in {"done", "aborted"}
        => \/ /\ returned.kind = "array"
              /\ pending = NoException
              /\ Len(returned.data) = 9 * totalPoints
           \/ /\ returned = NullArray
              /\ pending # NoException

\* C3, for the calls that return: the array is complete and no exception is
\* pending, or nullptr is returned with an exception pending.
C3_AllOrNothingOnReturn ==
    Done
        => \/ /\ returned.kind = "array"
              /\ pending = NoException
              /\ Len(returned.data) = 9 * totalPoints
           \/ /\ returned = NullArray
              /\ pending # NoException

\* C4: when propagation fails at one or more sample times, the call fails at
\* the smallest failing sample index: the signaled error names exactly that
\* index, no sample of a greater index is propagated or returned, and no
\* failing sample is passed over.
C4_FirstFailureReported ==
    /\ (Done /\ pending.class = PropagationFailureClass)
          => /\ ReportedIndex \in FailingBelow(totalPoints)
             /\ \A j \in FailingBelow(totalPoints) : ReportedIndex <= j
             /\ sgp4Calls = [k \in 1 .. ReportedIndex + 1 |-> k - 1]
             /\ returned = NullArray
    /\ (Counted /\ FailingBelow(totalPoints) # {})
          => /\ \A k \in DOMAIN sgp4Calls :
                   \A j \in FailingBelow(totalPoints) : sgp4Calls[k] <= j
             /\ pc # "return"
             /\ (Done => pending.class = PropagationFailureClass)

\* C4's case: the failure is reported at an index after the first sample,
\* with a later sample time failing too.
C4_Witness ==
    /\ Done
    /\ pending.class = PropagationFailureClass
    /\ ReportedIndex >= 1
    /\ \E j \in FailingBelow(totalPoints) : j > ReportedIndex

\* C5: when TLE parsing reports an error, the call is rejected with the
\* invalid-input condition before the sampling loop starts: sgp4 is never
\* invoked for any sample index.
C5_InvalidTleRejectedBeforeLoop ==
    (line1 # NullRef /\ line2 # NullRef /\ line1.orbit.error # 0)
        => /\ sgp4Calls = <<>>
           /\ pc \in {"get_strings", "parse", "done"}
           /\ (Done => /\ pending.class = InvalidInputClass
                       /\ returned = NullArray)

\* C5's case: a TLE whose parsing reported an error has been rejected, in a
\* call that asked for several samples.
C5_Witness ==
    /\ Done
    /\ pending = InvalidTleException
    /\ satrec.error # 0
    /\ durationHours > 0
    /\ stepMinutes > 0

\* C6: a propagation failure signaled to the caller carries the numeric code
\* of its failure mode: a failure of another mode at the same sample index
\* would be signaled differently.
C6_FailureCarriesCode ==
    (Done /\ pending.class = PropagationFailureClass)
        => \A c \in FailCodes \ {sgp4Error(satrec, ReportedIndex * stepMinutes)} :
              PropagationException(ReportedIndex, c) # pending

\* C7: invalid input (null or malformed TLE), a propagation failure and the
\* failure to allocate the result array are signaled with three pairwise
\* different conditions, each class always with its own.
C7_ErrorClassesDistinct ==
    Done
        => LET nullLines == ~LinesObtained
               badTle    == LinesObtained /\ satrec.error # 0
               failed    == /\ LinesObtained
                            /\ satrec.error = 0
                            /\ FailingBelow(totalPoints) # {}
               noArray   == /\ LinesObtained
                            /\ satrec.error = 0
                            /\ FailingBelow(totalPoints) = {}
                            /\ returned = NullArray
           IN  /\ (nullLines \/ badTle) <=> pending.class = InvalidInputClass
               /\ failed <=> pending.class = PropagationFailureClass
               /\ noArray <=> pending.class = AllocationFailureClass
               /\ Cardinality({InvalidInputClass, PropagationFailureClass,
                               AllocationFailureClass, NoException.class}) = 4

\* C7's case: the result array could not be allocated after a complete
\* propagation of several samples.
C7_Witness ==
    /\ Done
    /\ pending.class = AllocationFailureClass
    /\ Len(trajectory) >= 18

\* C8: on success the array has exactly 9 * (sample count) entries; entries
\* 9i .. 9i+8 are x, y, z, vx, vy, vz, lat, lon, alt (degrees, km) of the
\* sample propagated at elapsed time i * stepMinutes; elapsed time strictly
\* increases along the sequence when stepMinutes > 0.
C8_ArrayLayout ==
    Succeeded
        => /\ Len(returned.data) = 9 * totalPoints
           /\ \A j \in 0 .. totalPoints - 1 :
                 LET t == j * stepMinutes
                 IN  SubSeq(returned.data, 9 * j + 1, 9 * j + 9)
                       = << <<"x", t>>, <<"y", t>>, <<"z", t>>,
                            <<"vx", t>>, <<"vy", t>>, <<"vz", t>>,
                            <<"lat_deg", t>>, <<"lon_deg", t>>, <<"alt", t>> >>
           /\ (stepMinutes > 0
                 => \A j \in 0 .. totalPoints - 2 :
                       ElapsedOf(returned.data, j) < ElapsedOf(returned.data, j + 1))

\* C8's case: an array of at least three samples, taken more than a minute
\* apart, has been returned.
C8_Witness ==
    /\ Succeeded
    /\ stepMinutes > 1
    /\ SamplesIn(returned.data) >= 3

\* C9: on every return path, each buffer GetStringUTFChars returned non-null
\* is released exactly once before the function returns, and
\* ReleaseStringUTFChars is never called with a null pointer nor twice for
\* the same buffer.
C9_BuffersReleasedOnce ==
    /\ \A k \in DOMAIN released : released[k].chars # NULL
    /\ \A k, m \in DOMAIN released :
          released[k] = released[m] => k = m
    /\ Done
          => /\ (l1 # NULL
                   => \E k \in DOMAIN released :
                         released[k] = ReleaseCall(line1, l1))
             /\ (l2 # NULL
                   => \E k \in DOMAIN released :
                         released[k] = ReleaseCall(line2, l2))

\* C9, for the calls in which both buffers were obtained: each is released
\* exactly once on every return path.
C9_ReleasedOnceWhenObtained ==
    (Done /\ LinesObtained)
        => released = <<ReleaseCall(line1, l1), ReleaseCall(line2, l2)>>

\* The quotient totalMinutes / stepMinutes is negative.
NegativeQuotient ==
    \/ durationHours < 0 /\ stepMinutes > 0
    \/ durationHours > 0 /\ stepMinutes < 0

\* C10: the number of samples computed is never less than 1: whenever
\* floor(totalMinutes / stepMinutes) is negative the step count is clamped to
\* 0 and a successful call returns exactly one sample, taken at elapsed time
\* 0; a successful call never returns an empty array.
C10_AtLeastOneSample ==
    /\ pc \in {"loop", "return"} => totalPoints >= 1
    /\ Succeeded => SamplesIn(returned.data) >= 1
    /\ NegativeQuotient
          => /\ pc # "aborted"
             /\ (pc \in {"loop", "return"} => steps = 0 /\ totalPoints = 1)
             /\ (Succeeded => /\ Len(returned.data) = 9
                              /\ ElapsedOf(returned.data, 0) = 0
                              /\ sgp4Calls = <<0>>)

\* C10's case: a call with a negative quotient has returned its array.
C10_Witness ==
    /\ Succeeded
    /\ NegativeQuotient

====
